---- MODULE Spec2Model ----
(***************************************************************************)
(* Services dashboard of nextjs-prisma-mongodb.                            *)
(*                                                                         *)
(* Three parts of the program are modelled.                                *)
(*   - The client component ServiceFilters (service-filters.tsx): the      *)
(*     staged search value, the debounce timer of its effect, the          *)
(*     navigations it starts with router.push inside a transition, and the *)
(*     server page ServicesPage that renders its props from the URL.       *)
(*   - The server action getServices (actions/services.ts, kept in         *)
(*     service-form.tsx): the where clause it builds and the query it      *)
(*     hands to prisma.service.findMany; and the server actions            *)
(*     createService, updateService, deleteService and getService, with    *)
(*     the validation, the write, the cache invalidation and the value     *)
(*     each returns.                                                       *)
(*   - The client component ServiceForm (service-form.tsx): the dialog,    *)
(*     the edited fields and handleSubmit around the awaited server        *)
(*     action.                                                             *)
(*                                                                         *)
(* Text is a sequence of one-character strings, so that trimming,          *)
(* case folding and substring search are computed and not assumed.         *)
(* A URL is the ordered list of its query parameters, the structure a      *)
(* URLSearchParams object holds.  Time is counted in milliseconds and      *)
(* advances in steps of Quantum.                                           *)
(***************************************************************************)
EXTENDS Integers, Sequences, FiniteSets, TLC

\* ------------------------------------------------------------------------
\* Bounds of the model
\* ------------------------------------------------------------------------

\* time advances in steps of one StepsPerWindow-th of the documented window
StepsPerWindow == 3

\* navigations that may be pending at the same time
MaxInflight == 2

\* milliseconds the clock of the database may advance
MaxClock == 1

\* documents the database may ever insert
MaxCreates == 2

\* longest search text handed to getServices by a direct call
MaxLen == 2

\* ------------------------------------------------------------------------
\* Text
\* ------------------------------------------------------------------------

\* JavaScript undefined: a missing URL parameter or a missing argument
Undefined == <<"undefined">>

Empty == <<>>

StrAll == <<"a", "l", "l">>

StrTrue == <<"t", "r", "u", "e">>

StrFalse == <<"f", "a", "l", "s", "e">>

\* value || fallback of JavaScript, on text: undefined and "" are falsy
Truthy(s) == s # Undefined /\ s # Empty

\* simple case folding of one character
Lower(c) == CASE c = "A" -> "a" [] c = "B" -> "b" [] OTHER -> c

RECURSIVE TrimStart(_)
TrimStart(s) == IF s # Empty /\ Head(s) = " " THEN TrimStart(Tail(s)) ELSE s

RECURSIVE TrimEnd(_)
TrimEnd(s) ==
  IF s # Empty /\ s[Len(s)] = " " THEN TrimEnd(SubSeq(s, 1, Len(s) - 1)) ELSE s

\* String.prototype.trim
Trim(s) == TrimEnd(TrimStart(s))

\* does needle match hay at its first character, ignoring case
RECURSIVE MatchesAtHead(_, _)
MatchesAtHead(hay, needle) ==
  IF needle = Empty THEN TRUE
  ELSE IF hay = Empty THEN FALSE
  ELSE Lower(Head(hay)) = Lower(Head(needle))
       /\ MatchesAtHead(Tail(hay), Tail(needle))

\* { contains: needle, mode: "insensitive" } of the query engine
RECURSIVE ContainsInsensitive(_, _)
ContainsInsensitive(hay, needle) ==
  IF MatchesAtHead(hay, needle) THEN TRUE
  ELSE IF hay = Empty THEN FALSE
  ELSE ContainsInsensitive(Tail(hay), needle)

\* ------------------------------------------------------------------------
\* URL query parameters (URLSearchParams)
\* ------------------------------------------------------------------------

Param(name, value) == [name |-> name, value |-> value]

ParamsHas(params, name) == \E i \in 1..Len(params) : params[i].name = name

\* URLSearchParams.get / the searchParams object of a page
ParamsGet(params, name) ==
  IF ParamsHas(params, name)
  THEN params[CHOOSE i \in 1..Len(params) :
                /\ params[i].name = name
                /\ \A j \in 1..(i - 1) : params[j].name # name].value
  ELSE Undefined

\* URLSearchParams.delete: removes every pair of that name
ParamsDelete(params, name) == SelectSeq(params, LAMBDA p : p.name # name)

\* URLSearchParams.set: replaces the first pair of that name and removes the
\* others, or appends a pair
ParamsSet(params, name, value) ==
  IF ParamsHas(params, name)
  THEN LET first == CHOOSE i \in 1..Len(params) :
                      /\ params[i].name = name
                      /\ \A j \in 1..(i - 1) : params[j].name # name
       IN  SubSeq(params, 1, first - 1)
             \o << Param(name, value) >>
             \o ParamsDelete(SubSeq(params, first + 1, Len(params)), name)
  ELSE Append(params, Param(name, value))

\* ------------------------------------------------------------------------
\* The Service collection and the server action getServices
\* ------------------------------------------------------------------------

Service(id, name, description, price, isActive, isFeatured, createdAt, updatedAt) ==
  [id |-> id, name |-> name, description |-> description, price |-> price,
   isActive |-> isActive, isFeatured |-> isFeatured,
   createdAt |-> createdAt, updatedAt |-> updatedAt]

\* documents the collection may hold; the first two were created in the
\* same millisecond
ServicePool ==
  { Service(1, <<"A", "b">>, <<"b", " ", "a">>, 10, TRUE, FALSE, 1, 1),
    Service(2, <<"b">>, <<"a", "l", "l">>, 5, FALSE, FALSE, 1, 2),
    Service(3, <<"a", " ">>, <<"B">>, 7, TRUE, TRUE, 2, 2),
    Service(4, <<"l">>, <<" ">>, 0, FALSE, TRUE, 3, 3) }

Collections == SUBSET ServicePool

\* a where clause whose status condition is lost once a text is searched
getServicesWhereStatusOrText(searchTerm, filterIsActive) ==
  LET hasSearch == Truthy(searchTerm) /\ Trim(searchTerm) # Empty
      hasStatus == filterIsActive.isActive # StrAll /\ ~hasSearch
  IN  [hasIsActive |-> hasStatus,
       isActive    |-> hasStatus /\ filterIsActive.isActive = StrTrue,
       hasOR       |-> hasSearch,
       OR          |-> IF hasSearch
                       THEN << [field |-> "name", contains |-> searchTerm],
                               [field |-> "description", contains |-> searchTerm] >>
                       ELSE << >>]

\* a where clause that searches the name only and takes blanks for a text
getServicesWhereNameOnly(searchTerm, filterIsActive) ==
  LET hasStatus == filterIsActive.isActive # StrAll
      hasSearch == Truthy(searchTerm)
  IN  [hasIsActive |-> hasStatus,
       isActive    |-> hasStatus /\ filterIsActive.isActive = StrTrue,
       hasOR       |-> hasSearch,
       OR          |-> IF hasSearch
                       THEN << [field |-> "name", contains |-> searchTerm] >>
                       ELSE << >>]

\* the where clause of getServices: an optional isActive equality and an
\* optional OR list of contains conditions
getServicesWhere(searchTerm, filterIsActive) ==
  LET hasStatus == filterIsActive.isActive # StrAll
      hasSearch == Truthy(searchTerm) /\ Trim(searchTerm) # Empty
  IN  [hasIsActive |-> hasStatus,
       isActive    |-> hasStatus /\ filterIsActive.isActive = StrTrue,
       hasOR       |-> hasSearch,
       OR          |-> IF hasSearch
                       THEN << [field |-> "name", contains |-> searchTerm],
                               [field |-> "description", contains |-> searchTerm] >>
                       ELSE << >>]

FieldOf(r, field) == IF field = "name" THEN r.name ELSE r.description

\* does a document satisfy a where clause: its conditions combine with AND,
\* the members of OR with OR
MatchesWhere(r, where) ==
  /\ where.hasIsActive => r.isActive = where.isActive
  /\ where.hasOR =>
       \E i \in 1..Len(where.OR) :
          ContainsInsensitive(FieldOf(r, where.OR[i].field), where.OR[i].contains)

\* every order of the documents of a set in which createdAt never increases:
\* the next document is any of those created last
RECURSIVE OrdersByCreatedAtDesc(_)
OrdersByCreatedAtDesc(docs) ==
  IF docs = {} THEN { << >> }
  ELSE LET latest == { r \in docs : \A q \in docs : q.createdAt <= r.createdAt }
       IN  UNION { { << r >> \o rest : rest \in OrdersByCreatedAtDesc(docs \ {r}) } :
                   r \in latest }

\* prisma.service.findMany({ where, orderBy: { createdAt: "desc" } }): every
\* sequence the database may answer with; the order of documents with equal
\* createdAt is left to the database
findMany(collection, where) ==
  OrdersByCreatedAtDesc({ r \in collection : MatchesWhere(r, where) })

\* getServices({ searchTerm, filterIsActive }) on a reachable database
getServices(collection, searchTerm, filterIsActive) ==
  findMany(collection, getServicesWhere(searchTerm, filterIsActive))

\* ServicesPage: the props and the query it derives from the URL
ServicesPage(params) ==
  LET search == ParamsGet(params, "search")
      status == ParamsGet(params, "status")
      filterIsActive == [isActive |-> IF Truthy(status) THEN status ELSE StrAll]
  IN  [search         |-> search,
       filterIsActive |-> filterIsActive,
       searchTerm     |-> IF Truthy(search) THEN search ELSE Empty,
       where          |-> getServicesWhere(search, filterIsActive)]

\* the searchTerm prop ServiceFilters is rendered with
SearchTermProp(params) == ServicesPage(params).searchTerm

\* ------------------------------------------------------------------------
\* The server actions that write: createService, updateService,
\* deleteService, and the reads getService and the second getServices
\* ------------------------------------------------------------------------

\* what FormData.get answers for a key the form does not carry
Null == <<"null">>

\* !value of JavaScript on what FormData.get answers
Falsy(s) == s = Null \/ s = Undefined \/ s = Empty

\* a JavaScript number: NaN, or a finite amount counted in hundredths
Num(h) == [nan |-> FALSE, hundredths |-> h]

NaN == [nan |-> TRUE, hundredths |-> 0]

isNaN(n) == n.nan

DigitValue(c) ==
  CASE c = "0" -> 0 [] c = "1" -> 1 [] c = "2" -> 2 [] c = "3" -> 3
    [] c = "4" -> 4 [] c = "5" -> 5 [] c = "6" -> 6 [] c = "7" -> 7
    [] c = "8" -> 8 [] c = "9" -> 9 [] OTHER -> -1

IsDigit(c) == DigitValue(c) >= 0

\* the digits a text starts with
RECURSIVE LeadingDigits(_)
LeadingDigits(s) ==
  IF s # Empty /\ IsDigit(Head(s)) THEN << Head(s) >> \o LeadingDigits(Tail(s))
  ELSE << >>

\* the value of a run of digits
RECURSIVE DigitsValue(_)
DigitsValue(ds) ==
  IF ds = Empty THEN 0
  ELSE 10 * DigitsValue(SubSeq(ds, 1, Len(ds) - 1)) + DigitValue(ds[Len(ds)])

\* parseFloat(text as string): leading blanks, a sign, digits, a point and
\* digits; what follows the number is ignored, and a text that starts with no
\* number gives NaN (so does the key the form lacks, read as the text "null").
\* Amounts are kept to the hundredth; the texts submitted here hold neither an
\* exponent nor the word Infinity, which parseFloat would read as well.
parseFloat(text) ==
  LET t == TrimStart(text)
      negative == t # Empty /\ Head(t) = "-"
      unsigned == IF t # Empty /\ (Head(t) = "-" \/ Head(t) = "+") THEN Tail(t) ELSE t
      whole == LeadingDigits(unsigned)
      rest == SubSeq(unsigned, Len(whole) + 1, Len(unsigned))
      fraction == IF rest # Empty /\ Head(rest) = "."
                  THEN LeadingDigits(Tail(rest)) ELSE << >>
      tenths == IF Len(fraction) >= 1 THEN DigitValue(fraction[1]) ELSE 0
      hundredths == IF Len(fraction) >= 2 THEN DigitValue(fraction[2]) ELSE 0
      amount == 100 * DigitsValue(whole) + 10 * tenths + hundredths
  IN  IF text = Null \/ (whole = Empty /\ fraction = Empty) THEN NaN
      ELSE Num(IF negative THEN 0 - amount ELSE amount)

\* a submitted form: what FormData.get answers for each of the five keys
Form(name, description, price, isActive, isFeatured) ==
  [name |-> name, description |-> description, price |-> price,
   isActive |-> isActive, isFeatured |-> isFeatured]

\* what a server action hands back to its caller
ReturnsUndefined == [kind |-> "undefined", error |-> "", value |-> << >>]

ReturnsError(message) == [kind |-> "error", error |-> message, value |-> << >>]

ReturnsNull == [kind |-> "null", error |-> "", value |-> << >>]

ReturnsRecord(r) == [kind |-> "record", error |-> "", value |-> << r >>]

ReturnsList(seq) == [kind |-> "list", error |-> "", value |-> seq]

\* an awaited call that threw instead of returning: the request never reached
\* the server
Rejected == [kind |-> "rejected", error |-> "fetch failed", value |-> << >>]

\* const serviceTag = "services"
serviceTag == "services"

\* what one call of a server action did: the collection it left, what it
\* returned, the persistence calls it made, the tags and paths it revalidated
\* and the id the persistence layer assigned
Outcome(collection, returned, dbCalls, tags, paths, insertedId) ==
  [services |-> collection, returned |-> returned, dbCalls |-> dbCalls,
   tags |-> tags, paths |-> paths, insertedId |-> insertedId]

\* the data object of createService and updateService
ServiceData(formData) ==
  [name        |-> formData.name,
   description |-> formData.description,
   price       |-> parseFloat(formData.price),
   isActive    |-> formData.isActive = StrTrue,
   isFeatured  |-> formData.isFeatured = StrTrue]

\* a test before the write that looks at the name only
InvalidNameOnly(formData) == Falsy(formData.name)

\* the test before the write: !name || !description || isNaN(price)
Invalid(formData) ==
  \/ Falsy(formData.name)
  \/ Falsy(formData.description)
  \/ isNaN(parseFloat(formData.price))

\* a create that stamps updatedAt later than createdAt
prismaCreateLateStamp(collection, data, id, clock) ==
  collection \union
    { Service(id, data.name, data.description, data.price, data.isActive,
              data.isFeatured, clock, clock + 1) }

\* prisma.service.create({ data }): the document gets the id the database
\* assigns and createdAt = updatedAt = the time of the write
prismaCreate(collection, data, id, clock) ==
  collection \union
    { Service(id, data.name, data.description, data.price, data.isActive,
              data.isFeatured, clock, clock) }

\* is there a document of that id
Exists(collection, id) == \E r \in collection : r.id = id

\* an update without its where: every document is rewritten
prismaUpdateEvery(collection, id, data, clock) ==
  { Service(r.id, data.name, data.description, data.price, data.isActive,
            data.isFeatured, r.createdAt, clock) : r \in collection }

\* an update that stamps createdAt and leaves updatedAt as it was
prismaUpdateStampsCreatedAt(collection, id, data, clock) ==
  { IF r.id = id
    THEN Service(r.id, data.name, data.description, data.price, data.isActive,
                 data.isFeatured, clock, r.updatedAt)
    ELSE r : r \in collection }

\* an update that leaves updatedAt as it was
prismaUpdateKeepsStamp(collection, id, data, clock) ==
  { IF r.id = id
    THEN Service(r.id, data.name, data.description, data.price, data.isActive,
                 data.isFeatured, r.createdAt, r.updatedAt)
    ELSE r : r \in collection }

\* prisma.service.update({ where: { id }, data }): the five fields are
\* replaced and updatedAt becomes the time of the write
prismaUpdate(collection, id, data, clock) ==
  { IF r.id = id
    THEN Service(r.id, data.name, data.description, data.price, data.isActive,
                 data.isFeatured, r.createdAt, clock)
    ELSE r : r \in collection }

\* prisma.service.delete({ where: { id } })
prismaDelete(collection, id) == { r \in collection : r.id # id }

\* a write that throws only when the database fails
WriteThrowsOnFailureOnly(collection, id, dbFails) == dbFails

\* does the write of update or delete throw: the database failed, or no
\* document has that id
WriteThrows(collection, id, dbFails) == dbFails \/ ~Exists(collection, id)

\* a createService without its catch: the failure of the write reaches the
\* caller
createServiceUncaught(collection, formData, dbFails, id, clock) ==
  IF Invalid(formData)
  THEN Outcome(collection,
               ReturnsError("All fields are required and price must be a valid number"),
               0, {}, {}, 0)
  ELSE IF dbFails
  THEN Outcome(collection, Rejected, 1, {}, {}, 0)
  ELSE Outcome(prismaCreate(collection, ServiceData(formData), id, clock),
               ReturnsUndefined, 1, { serviceTag }, {}, id)

\* createService(formData)
createService(collection, formData, dbFails, id, clock) ==
  IF Invalid(formData)
  THEN Outcome(collection,
               ReturnsError("All fields are required and price must be a valid number"),
               0, {}, {}, 0)
  ELSE IF dbFails
  THEN Outcome(collection, ReturnsError("Failed to create service"), 1, {}, {}, 0)
  ELSE Outcome(prismaCreate(collection, ServiceData(formData), id, clock),
               ReturnsUndefined, 1, { serviceTag }, {}, id)

\* an updateService that revalidates the tag after a failed write as well
updateServiceRevalidatesAlways(collection, id, formData, dbFails, clock) ==
  IF Invalid(formData)
  THEN Outcome(collection,
               ReturnsError("All fields are required and price must be a valid number"),
               0, {}, {}, 0)
  ELSE IF WriteThrows(collection, id, dbFails)
  THEN Outcome(collection, ReturnsError("Failed to update service"), 1,
               { serviceTag }, {}, 0)
  ELSE Outcome(prismaUpdate(collection, id, ServiceData(formData), clock),
               ReturnsUndefined, 1, { serviceTag }, {}, 0)

\* updateService(id, formData)
updateService(collection, id, formData, dbFails, clock) ==
  IF Invalid(formData)
  THEN Outcome(collection,
               ReturnsError("All fields are required and price must be a valid number"),
               0, {}, {}, 0)
  ELSE IF WriteThrows(collection, id, dbFails)
  THEN Outcome(collection, ReturnsError("Failed to update service"), 1, {}, {}, 0)
  ELSE Outcome(prismaUpdate(collection, id, ServiceData(formData), clock),
               ReturnsUndefined, 1, { serviceTag }, {}, 0)

\* a deleteService that revalidates the tag only
deleteServiceTagOnly(collection, id, dbFails) ==
  IF WriteThrows(collection, id, dbFails)
  THEN Outcome(collection, ReturnsError("Failed to delete service"), 1, {}, {}, 0)
  ELSE Outcome(prismaDelete(collection, id), ReturnsUndefined, 1,
               { serviceTag }, {}, 0)

\* deleteService(id)
deleteService(collection, id, dbFails) ==
  IF WriteThrows(collection, id, dbFails)
  THEN Outcome(collection, ReturnsError("Failed to delete service"), 1, {}, {}, 0)
  ELSE Outcome(prismaDelete(collection, id), ReturnsUndefined, 1,
               { serviceTag }, { "/dashboard/services" }, 0)

\* getService(id): findUnique answers the document or null; a failed lookup,
\* and a lookup without an id, throws and is answered with an error object
getService(collection, id, dbFails) ==
  IF dbFails \/ id = 0
  THEN Outcome(collection, ReturnsError("Failed to get service"), 1, {}, {}, 0)
  ELSE IF Exists(collection, id)
  THEN Outcome(collection,
               ReturnsRecord(CHOOSE r \in collection : r.id = id), 1, {}, {}, 0)
  ELSE Outcome(collection, ReturnsNull, 1, {}, {}, 0)

\* getServices({ searchTerm, filterIsActive }) with its catch: every outcome
\* the call may have
getServicesCaught(collection, searchTerm, filterIsActive, dbFails) ==
  IF dbFails
  THEN { Outcome(collection, ReturnsList(<< >>), 1, {}, {}, 0) }
  ELSE { Outcome(collection, ReturnsList(seq), 1, {}, {}, 0) :
           seq \in getServices(collection, searchTerm, filterIsActive) }

\* the second definition of getServices, without parameters
getServicesSecond(collection, dbFails) ==
  IF dbFails
  THEN { Outcome(collection, ReturnsError("Failed to get services"), 1, {}, {}, 0) }
  ELSE { Outcome(collection, ReturnsList(seq), 1, {}, {}, 0) :
           seq \in OrdersByCreatedAtDesc(collection) }

\* --- the second "use server" block: createService and updateService with
\* redirect ---

\* a value as the persistence layer sees it: its JavaScript type and itself.
\* What FormData.get answers is a string, or null for a missing key.
FormValue(text) ==
  [type |-> IF text = Null THEN "null" ELSE "string", value |-> text]

\* data: { name, description, price, isActive, isFeatured } of the second
\* createService and updateService: the values of the form as they are
RawData(formData) ==
  [name        |-> FormValue(formData.name),
   description |-> FormValue(formData.description),
   price       |-> FormValue(formData.price),
   isActive    |-> FormValue(formData.isActive),
   isFeatured  |-> FormValue(formData.isFeatured)]

\* the persistence layer takes a write whose values have the types of the
\* Service model and rejects every other
SchemaAccepts(data) ==
  /\ data.name.type = "string"
  /\ data.description.type = "string"
  /\ data.price.type = "number"
  /\ data.isActive.type = "boolean"
  /\ data.isFeatured.type = "boolean"

\* the values of a data object
Values(data) ==
  [name |-> data.name.value, description |-> data.description.value,
   price |-> data.price.value, isActive |-> data.isActive.value,
   isFeatured |-> data.isFeatured.value]

\* redirect(path): throws the error that carries the path to the framework
redirect(path) == [kind |-> "thrown", error |-> path, value |-> << >>]

\* catch (error) { return { error: message } } around something thrown
Caught(thrown, message) == ReturnsError(message)

\* the test before the write: !name || !description || !price
InvalidRedirect(formData) ==
  \/ Falsy(formData.name)
  \/ Falsy(formData.description)
  \/ Falsy(formData.price)

\* the second createService(formData): the write, revalidateTag and redirect
\* all sit inside the try
createServiceRedirect(collection, formData, dbFails, id, clock) ==
  LET data == RawData(formData)
  IN  IF InvalidRedirect(formData)
      THEN Outcome(collection, ReturnsError("All fields are required"), 0, {}, {}, 0)
      ELSE IF dbFails \/ ~SchemaAccepts(data)
      THEN Outcome(collection, ReturnsError("Failed to create service"), 1, {}, {}, 0)
      ELSE Outcome(prismaCreate(collection, Values(data), id, clock),
                   Caught(redirect("/dashboard/services"), "Failed to create service"),
                   1, { serviceTag }, {}, id)

\* the second updateService(id, formData)
updateServiceRedirect(collection, id, formData, dbFails, clock) ==
  LET data == RawData(formData)
  IN  IF InvalidRedirect(formData)
      THEN Outcome(collection, ReturnsError("All fields are required"), 0, {}, {}, 0)
      ELSE IF WriteThrows(collection, id, dbFails) \/ ~SchemaAccepts(data)
      THEN Outcome(collection, ReturnsError("Failed to update service"), 1, {}, {}, 0)
      ELSE Outcome(prismaUpdate(collection, id, Values(data), clock),
                   Caught(redirect("/dashboard/services"), "Failed to update service"),
                   1, { serviceTag }, {}, 0)

\* a form that carries no field
NoForm == Form(Null, Null, Null, Null, Null)

\* the record of one call: the action and its arguments, whether a
\* persistence call it made failed, what it returned and did, whether the
\* collection changed, how many documents there were before, the document of
\* that id before the call, and the clock at the call
Call(action, id, formData, searchTerm, filterIsActive, dbFails, outcome, before, clock) ==
  [action |-> action, id |-> id, form |-> formData, searchTerm |-> searchTerm,
   filterIsActive |-> filterIsActive,
   dbFails |-> (dbFails /\ outcome.dbCalls > 0),
   returned |-> outcome.returned, dbCalls |-> outcome.dbCalls,
   tags |-> outcome.tags, paths |-> outcome.paths,
   insertedId |-> outcome.insertedId,
   changed |-> outcome.services # before,
   countBefore |-> Cardinality(before),
   prior |-> IF Exists(before, id)
             THEN << CHOOSE r \in before : r.id = id >> ELSE << >>,
   clock |-> clock]

\* no call yet
NoCall ==
  Call("none", 0, NoForm, Undefined, [isActive |-> StrAll], FALSE,
       Outcome({}, ReturnsUndefined, 0, {}, {}, 0), {}, 0)

\* ------------------------------------------------------------------------
\* The client component ServiceForm
\* ------------------------------------------------------------------------

DigitChar(d) == << "0", "1", "2", "3", "4", "5", "6", "7", "8", "9" >>[d + 1]

\* the decimal digits of a natural number
RECURSIVE NatToString(_)
NatToString(n) ==
  IF n < 10 THEN << DigitChar(n) >>
  ELSE NatToString(n \div 10) \o << DigitChar(n % 10) >>

\* Number.prototype.toString of an amount kept to the hundredth
NumberToString(n) ==
  IF n.nan THEN << "N", "a", "N" >>
  ELSE LET negative == n.hundredths < 0
           amount == IF negative THEN 0 - n.hundredths ELSE n.hundredths
           cents == amount % 100
           fraction == IF cents = 0 THEN << >>
                       ELSE IF cents % 10 = 0 THEN << ".", DigitChar(cents \div 10) >>
                       ELSE << ".", DigitChar(cents \div 10), DigitChar(cents % 10) >>
       IN  (IF negative THEN << "-" >> ELSE << >>)
             \o NatToString(amount \div 100) \o fraction

\* Boolean.prototype.toString
BooleanToString(b) == IF b THEN StrTrue ELSE StrFalse

\* the formData the form is reset to after a submit
BlankFormData ==
  [name |-> Empty, description |-> Empty, price |-> Empty,
   isActive |-> TRUE, isFeatured |-> FALSE]

\* useState's first formData: the fields of the service prop, a sequence of
\* no or one Service, or the blank values
InitialFormData(service) ==
  IF service = << >> THEN BlankFormData
  ELSE [name        |-> service[1].name,
        description |-> service[1].description,
        price       |-> NumberToString(service[1].price),
        isActive    |-> service[1].isActive,
        isFeatured  |-> service[1].isFeatured]

\* the component as mounted: the dialog closed, nothing loading; awaiting
\* holds what the awaited server action will answer, and step, submitted,
\* result and beforeResume record the last step of the form
ServiceForm(service) ==
  [service |-> service, open |-> FALSE, isLoading |-> FALSE,
   formData |-> InitialFormData(service), awaiting |-> << >>,
   step |-> "mount", submitted |-> BlankFormData, result |-> ReturnsUndefined,
   beforeResume |-> [open |-> FALSE, formData |-> BlankFormData]]

\* the FormData handleSubmit builds from the state
FormOf(formData) ==
  Form(formData.name, formData.description, formData.price,
       BooleanToString(formData.isActive), BooleanToString(formData.isFeatured))

\* the browser's check of the inputs before the submit event: name,
\* description and price are required, price is a number and min="0"
ConstraintsValid(formData) ==
  /\ formData.name # Empty
  /\ formData.description # Empty
  /\ ~isNaN(parseFloat(formData.price))
  /\ parseFloat(formData.price).hundredths >= 0

\* ------------------------------------------------------------------------
\* The client component ServiceFilters
\* ------------------------------------------------------------------------

\* the debounce window the documentation states, in milliseconds
SearchDebounceMs == 1500

\* one step of the clock
Quantum == SearchDebounceMs \div StepsPerWindow

\* delay of the debounce timer, in milliseconds
DebounceMs == 1500

Min(a, b) == IF a < b THEN a ELSE b

Max(a, b) == IF a > b THEN a ELSE b

\* texts the user may stage in the search box
SearchValues == { Empty, <<"a">>, <<"b">>, StrAll }

\* values of the status select
StatusValues == { StrAll, StrTrue, StrFalse }

\* URLs reached from outside the component: typed addresses, back and forward
ExternalUrls ==
  { << >>,
    << Param("search", <<"b">>) >>,
    << Param("status", StrFalse), Param("search", <<"a">>) >>,
    << Param("search", Empty) >> }

VARIABLES
  services,         \* the stored Service documents
  url,              \* query parameters of the rendered URL
  localSearchTerm,  \* the staged search value
  timers,           \* live timers of setTimeout
  timeoutId,        \* timeoutId held by the cleanup of the debounce effect
  inflight,         \* targets of the navigations still pending, oldest first
  pageQuery,        \* what ServicesPage derived from the URL it rendered
  listing,          \* the services ServicesPage rendered
  readArgs,         \* arguments of the last direct call of getServices
  readResult,       \* what that call returned
  event,            \* the step taken last
  sinceChange,      \* milliseconds since the staged value last changed by typing
  burstCommits,     \* search commits fired since then
  burst,            \* staged-value changes of the current burst of typing, each
                    \* less than the window after the one before; 0 once a
                    \* status selection or an outside navigation intervened
  resynced,         \* an outside change of the search term replaced a pending
                    \* commit and nothing was typed since
  now,              \* the clock of the database, in milliseconds
  nextId,           \* the id the database assigns next
  call,             \* the last call of a writing or reading server action
  form              \* the state of the ServiceForm component

vars ==
  << services, url, localSearchTerm, timers, timeoutId, inflight, pageQuery,
     listing, readArgs, readResult, event, sinceChange, burstCommits, burst,
     resynced, now, nextId, call, form >>

\* what the server actions that write, and the ServiceForm, work on
crudVars == << now, nextId, call, form >>

\* useTransition: pending while a navigation started in a transition runs
isPending == inflight # << >>

\* a query string builder that never removes a parameter
createQueryStringSetOnly(searchParams, name, value) ==
  ParamsSet(searchParams, name, value)

\* createQueryString(name, value) over the searchParams of a render
createQueryString(searchParams, name, value) ==
  IF value = Empty \/ value = StrAll
  THEN ParamsDelete(searchParams, name)
  ELSE ParamsSet(searchParams, name, value)

\* a cleanup that leaves the timer alive
clearNothing(live, id) == live

\* clearTimeout(id): a fired or unknown id is ignored
clearTimeout(live, id) == { t \in live : t.id # id }

\* the id setTimeout returns: one no live timer has
FreshId(live) ==
  CHOOSE i \in 1..(Cardinality(live) + 1) : \A t \in live : t.id # i

\* The debounce effect, run because one of its dependencies changed: the
\* cleanup of the previous run clears its timer, then a timer is set whose
\* callback closes over the values of this render.
DebounceEffect(live, id, local, term, searchParams) ==
  LET cleared == clearTimeout(live, id)
      fresh == FreshId(cleared)
  IN  [timers    |-> cleared \union
                       { [id |-> fresh, remaining |-> DebounceMs, local |-> local,
                          term |-> term, searchParams |-> searchParams] },
       timeoutId |-> fresh]

\* a resync effect that keeps the staged value
KeepStaged(local, term) == local

\* The resync effect, run because the searchTerm prop changed:
\* setLocalSearchTerm(searchTerm)
ResyncEffect(local, term) == term

\* The renders and effects that follow a change of the URL from oldUrl to
\* newUrl.  The searchParams object, and with it createQueryString, changes
\* with the URL, so the debounce effect runs again; if the searchTerm prop
\* changed the resync effect sets the staged value, and if that changed it the
\* debounce effect runs once more.  These renders and effects are over before
\* the next timer callback runs.
Rerender(live, id, local, oldUrl, newUrl) ==
  LET oldTerm == SearchTermProp(oldUrl)
      newTerm == SearchTermProp(newUrl)
      first == IF newUrl # oldUrl
               THEN DebounceEffect(live, id, local, newTerm, newUrl)
               ELSE [timers |-> live, timeoutId |-> id]
      local2 == IF newTerm # oldTerm THEN ResyncEffect(local, newTerm) ELSE local
      second == IF local2 # local
                THEN DebounceEffect(first.timers, first.timeoutId, local2, newTerm, newUrl)
                ELSE first
  IN  [timers |-> second.timers, timeoutId |-> second.timeoutId,
       localSearchTerm |-> local2]

Event(kind, value, href, elapsed, staged, committed, resync) ==
  [kind |-> kind, value |-> value, href |-> href, elapsed |-> elapsed,
   staged |-> staged, committed |-> committed, resync |-> resync]

NoEvent(kind) == Event(kind, Empty, << >>, 0, Empty, Empty, FALSE)

\* the page is rendered for newUrl and the component with its new props
ShowPage(newUrl) ==
  LET r == Rerender(timers, timeoutId, localSearchTerm, url, newUrl)
  IN  /\ url' = newUrl
      /\ localSearchTerm' = r.localSearchTerm
      /\ timers' = r.timers
      /\ timeoutId' = r.timeoutId
      /\ pageQuery' = ServicesPage(newUrl)
      /\ listing' \in getServices(services, ServicesPage(newUrl).search,
                                  ServicesPage(newUrl).filterIsActive)

\* collections a dashboard session starts on
SessionCollections == { { r \in ServicePool : r.id <= 3 } }

\* the page is loaded at startUrl: ServicesPage renders and ServiceFilters
\* mounts, its debounce effect setting the first timer
Mount(startUrl) ==
  /\ url = startUrl
  /\ localSearchTerm = SearchTermProp(url)
  /\ timers = DebounceEffect({}, 0, localSearchTerm, SearchTermProp(url), url).timers
  /\ timeoutId = DebounceEffect({}, 0, localSearchTerm, SearchTermProp(url), url).timeoutId
  /\ inflight = << >>
  /\ pageQuery = ServicesPage(url)
  /\ listing \in getServices(services, pageQuery.search, pageQuery.filterIsActive)
  /\ readArgs = [searchTerm |-> Undefined, filterIsActive |-> [isActive |-> StrAll]]
  /\ readResult \in getServices(services, readArgs.searchTerm, readArgs.filterIsActive)
  /\ event = NoEvent("mount")
  /\ sinceChange = 0
  /\ burstCommits = 0
  /\ burst = 0
  /\ resynced = FALSE

\* the database has assigned no id and no server action was called; a
\* ServiceForm, if the session has one, is mounted on the given service prop
Idle(service) ==
  /\ now = 0
  /\ nextId = Cardinality(services) + 1
  /\ call = NoCall
  /\ form = ServiceForm(service)

Init ==
  /\ services \in SessionCollections
  /\ \E startUrl \in ExternalUrls : Mount(startUrl)
  /\ Idle(<< >>)

\* handleSearchChange(value): the input's onChange; the input is disabled
\* while a transition is pending
handleSearchChange(value) ==
  /\ ~isPending
  /\ value # localSearchTerm
  /\ localSearchTerm' = value
  /\ LET e == DebounceEffect(timers, timeoutId, value, SearchTermProp(url), url)
     IN  timers' = e.timers /\ timeoutId' = e.timeoutId
  /\ event' = Event("type", value, << >>, sinceChange, value, SearchTermProp(url), FALSE)
  /\ sinceChange' = 0
  /\ burstCommits' = 0
  /\ burst' = IF burst > 0 /\ sinceChange < SearchDebounceMs
               THEN Min(burst + 1, 3)
               ELSE 1
  /\ resynced' = FALSE
  /\ UNCHANGED crudVars
  /\ UNCHANGED << services, url, inflight, pageQuery, listing, readArgs, readResult >>

\* a callback that commits whatever it closed over
CommitsAlways(local, term) == TRUE

\* the test of the timer callback: localSearchTerm !== searchTerm
ShouldCommit(local, term) == local # term

\* the callback of the debounce timer
TimerFire(t) ==
  /\ t \in timers
  /\ t.remaining = 0
  /\ timers' = timers \ {t}
  /\ IF ShouldCommit(t.local, t.term)
     THEN LET href == createQueryString(t.searchParams, "search", t.local)
          IN  /\ Len(inflight) < MaxInflight
              /\ inflight' = Append(inflight, href)
              /\ event' = Event("searchCommit", t.local, href, sinceChange,
                                localSearchTerm, SearchTermProp(url), FALSE)
              /\ burstCommits' = Min(burstCommits + 1, 2)
     ELSE /\ inflight' = inflight
          /\ event' = Event("timerIdle", t.local, << >>, sinceChange,
                            localSearchTerm, SearchTermProp(url), FALSE)
          /\ burstCommits' = burstCommits
  /\ UNCHANGED crudVars
  /\ UNCHANGED << services, url, localSearchTerm, timeoutId, pageQuery, listing,
                  readArgs, readResult, sinceChange, burst, resynced >>

\* handleStatusChange(value): the select's onValueChange; the select is
\* disabled while a transition is pending
handleStatusChange(value) ==
  /\ ~isPending
  /\ Len(inflight) < MaxInflight
  /\ LET href == createQueryString(url, "status", value)
     IN  /\ inflight' = Append(inflight, href)
         /\ event' = Event("statusCommit", value, href, sinceChange,
                           localSearchTerm, SearchTermProp(url), FALSE)
  /\ burst' = 0
  /\ UNCHANGED crudVars
  /\ UNCHANGED << services, url, localSearchTerm, timers, timeoutId, pageQuery,
                  listing, readArgs, readResult, sinceChange, burstCommits, resynced >>

\* A pending navigation completes.  The router handles navigations in the
\* order they were started and a later one may supersede the earlier ones:
\* the k oldest leave the queue and the target of the k-th is shown.
NavComplete(k) ==
  /\ k \in 1..Len(inflight)
  /\ inflight' = SubSeq(inflight, k + 1, Len(inflight))
  /\ ShowPage(inflight[k])
  /\ event' = Event("navComplete", Empty, inflight[k], sinceChange,
                    localSearchTerm', SearchTermProp(inflight[k]), FALSE)
  /\ UNCHANGED crudVars
  /\ UNCHANGED << services, readArgs, readResult, sinceChange, burstCommits,
                  burst, resynced >>

\* a live timer whose staged value differs from the text c: a deferred commit
\* that c does not already satisfy
PendingCommitOtherThan(c) == \E t \in timers : t.local # t.term /\ t.local # c

\* The URL changes from outside the component (address bar, back, forward).
\* Pending navigations are kept or dropped by the router.
ExternalNavigate(newUrl, keep) ==
  /\ newUrl # url
  /\ inflight' = IF keep THEN inflight ELSE << >>
  /\ ShowPage(newUrl)
  /\ LET replaced == /\ SearchTermProp(newUrl) # SearchTermProp(url)
                     /\ PendingCommitOtherThan(SearchTermProp(newUrl))
     IN  /\ event' = Event("external", Empty, newUrl, sinceChange,
                           localSearchTerm', SearchTermProp(newUrl), replaced)
         /\ resynced' = (resynced \/ replaced)
  /\ burst' = 0
  /\ UNCHANGED crudVars
  /\ UNCHANGED << services, readArgs, readResult, sinceChange, burstCommits >>

\* time passes; a timer that is due fires before time passes again
Tick ==
  /\ \A t \in timers : t.remaining > 0
  /\ timers' = { [t EXCEPT !.remaining = Max(0, t.remaining - Quantum)] : t \in timers }
  /\ sinceChange' = Min(sinceChange + Quantum, SearchDebounceMs + Quantum)
  /\ event' = NoEvent("tick")
  /\ UNCHANGED crudVars
  /\ UNCHANGED << services, url, localSearchTerm, timeoutId, inflight, pageQuery,
                  listing, readArgs, readResult, burstCommits, burst, resynced >>

Next ==
  \/ \E v \in SearchValues : handleSearchChange(v)
  \/ \E t \in timers : TimerFire(t)
  \/ \E v \in StatusValues : handleStatusChange(v)
  \/ \E k \in 1..MaxInflight : NavComplete(k)
  \/ \E u \in ExternalUrls, keep \in BOOLEAN : ExternalNavigate(u, keep)
  \/ Tick

\* a dashboard session: one user, one tab
Spec == Init /\ [][Next]_vars

\* ------------------------------------------------------------------------
\* Direct calls of the server actions
\* ------------------------------------------------------------------------

SearchChars == { "a", "A", "b", " " }

RECURSIVE TextsUpTo(_)
TextsUpTo(n) ==
  IF n = 0 THEN { Empty }
  ELSE TextsUpTo(n - 1) \union
         { Append(s, c) : s \in { x \in TextsUpTo(n - 1) : Len(x) = n - 1 },
                          c \in SearchChars }

\* the searchTerm argument: undefined or a text
SearchInputs == { Undefined, StrAll } \union TextsUpTo(MaxLen)

\* the filterIsActive argument
FilterInputs == { [isActive |-> f] : f \in StatusValues }

\* the parts of the state the server actions leave alone
sessionVars ==
  << url, localSearchTerm, timers, timeoutId, inflight, pageQuery, listing,
     readArgs, readResult, event, sinceChange, burstCommits, burst, resynced >>

\* getServices({ searchTerm, filterIsActive }) called as a server action
CallGetServices(searchTerm, filterIsActive) ==
  /\ readArgs' = [searchTerm |-> searchTerm, filterIsActive |-> filterIsActive]
  /\ readResult' \in getServices(services, searchTerm, filterIsActive)
  /\ event' = NoEvent("getServices")
  /\ UNCHANGED crudVars
  /\ UNCHANGED << services, url, localSearchTerm, timers, timeoutId, inflight,
                  pageQuery, listing, sinceChange, burstCommits, burst, resynced >>

GatewayInit ==
  /\ services \in Collections
  /\ Mount(<< >>)
  /\ Idle(<< >>)

GatewayNext ==
  \E s \in SearchInputs, f \in FilterInputs : CallGetServices(s, f)

\* the server actions called on any stored collection
SpecGateway == GatewayInit /\ [][GatewayNext]_vars

\* ------------------------------------------------------------------------
\* The server actions called one after the other on a database that starts
\* empty (SpecCrud)
\* ------------------------------------------------------------------------

\* a form every field of which is accepted, and a second one
FormConsulting ==
  Form(<<"C">>, <<"s">>, <<"9", "9", ".", "5", "0">>, StrTrue, StrFalse)

FormXY == Form(<<"X">>, <<"Y">>, <<"5">>, StrFalse, StrTrue)

\* the forms submitted: the two above, and the first with one field empty,
\* missing or unusual
FormInputs ==
  { FormConsulting, FormXY }
    \union { [FormConsulting EXCEPT !.name = v] : v \in { Empty, Null } }
    \union { [FormConsulting EXCEPT !.description = v] : v \in { Empty, Null } }
    \union { [FormConsulting EXCEPT !.price = v] :
               v \in { <<"x">>, Null, <<"-", "5">> } }
    \union { [FormConsulting EXCEPT !.isActive = v] : v \in { Null, <<"y">> } }
    \union { [FormConsulting EXCEPT !.isFeatured = Null] }

\* ids a caller may name: those the database may assign
IdInputs == 1..MaxCreates

\* the caller of the server actions awaits each answer before its next call
Ready == call = NoCall

\* createService(formData) called as a server action
CallCreateService(formData, dbFails) ==
  LET o == createService(services, formData, dbFails, nextId, now)
  IN  /\ Ready
      /\ o.insertedId # 0 => nextId <= MaxCreates
      /\ services' = o.services
      /\ nextId' = IF o.insertedId # 0 THEN nextId + 1 ELSE nextId
      /\ call' = Call("createService", 0, formData, Undefined,
                      [isActive |-> StrAll], dbFails, o, services, now)
      /\ UNCHANGED << now, form, sessionVars >>

\* updateService(id, formData) called as a server action
CallUpdateService(id, formData, dbFails) ==
  LET o == updateService(services, id, formData, dbFails, now)
  IN  /\ Ready
      /\ services' = o.services
      /\ call' = Call("updateService", id, formData, Undefined,
                      [isActive |-> StrAll], dbFails, o, services, now)
      /\ UNCHANGED << now, nextId, form, sessionVars >>

\* deleteService(id) called as a server action
CallDeleteService(id, dbFails) ==
  LET o == deleteService(services, id, dbFails)
  IN  /\ Ready
      /\ services' = o.services
      /\ call' = Call("deleteService", id, NoForm, Undefined,
                      [isActive |-> StrAll], dbFails, o, services, now)
      /\ UNCHANGED << now, nextId, form, sessionVars >>

\* the second createService(formData) called as a server action
CallCreateServiceRedirect(formData, dbFails) ==
  LET o == createServiceRedirect(services, formData, dbFails, nextId, now)
  IN  /\ Ready
      /\ o.insertedId # 0 => nextId <= MaxCreates
      /\ services' = o.services
      /\ nextId' = IF o.insertedId # 0 THEN nextId + 1 ELSE nextId
      /\ call' = Call("createServiceRedirect", 0, formData, Undefined,
                      [isActive |-> StrAll],
                      dbFails \/ ~SchemaAccepts(RawData(formData)), o, services, now)
      /\ UNCHANGED << now, form, sessionVars >>

\* the second updateService(id, formData) called as a server action
CallUpdateServiceRedirect(id, formData, dbFails) ==
  LET o == updateServiceRedirect(services, id, formData, dbFails, now)
  IN  /\ Ready
      /\ services' = o.services
      /\ call' = Call("updateServiceRedirect", id, formData, Undefined,
                      [isActive |-> StrAll],
                      dbFails \/ ~SchemaAccepts(RawData(formData)), o, services, now)
      /\ UNCHANGED << now, nextId, form, sessionVars >>

\* getService(id) called as a server action; id 0 stands for no id
CallGetService(id, dbFails) ==
  LET o == getService(services, id, dbFails)
  IN  /\ Ready
      /\ call' = Call("getService", id, NoForm, Undefined,
                      [isActive |-> StrAll], dbFails, o, services, now)
      /\ UNCHANGED << services, now, nextId, form, sessionVars >>

\* getServices({ searchTerm, filterIsActive }) called on a database that may
\* fail
CallGetServicesCaught(searchTerm, filterIsActive, dbFails) ==
  /\ Ready
  /\ \E o \in getServicesCaught(services, searchTerm, filterIsActive, dbFails) :
       call' = Call("getServices", 0, NoForm, searchTerm, filterIsActive,
                    dbFails, o, services, now)
  /\ UNCHANGED << services, now, nextId, form, sessionVars >>

\* the second getServices() called on a database that may fail
CallGetServicesSecond(dbFails) ==
  /\ Ready
  /\ \E o \in getServicesSecond(services, dbFails) :
       call' = Call("getServicesSecond", 0, NoForm, Undefined,
                    [isActive |-> StrAll], dbFails, o, services, now)
  /\ UNCHANGED << services, now, nextId, form, sessionVars >>

\* a millisecond passes on the clock of the database
TimePasses ==
  /\ now < MaxClock
  /\ now' = now + 1
  /\ UNCHANGED << services, nextId, call, form, sessionVars >>

CrudInit ==
  /\ services = {}
  /\ Mount(<< >>)
  /\ Idle(<< >>)

\* search terms of the reads on the database that may fail
CrudSearchInputs == { Undefined, StrAll, Empty, <<"c">>, <<"x">> }

\* the caller has the answer of the call: the next call may start
Returns ==
  /\ call # NoCall
  /\ call' = NoCall
  /\ UNCHANGED << services, now, nextId, form, sessionVars >>

CrudNext ==
  \/ \E f \in FormInputs, dbFails \in BOOLEAN : CallCreateService(f, dbFails)
  \/ \E id \in IdInputs, f \in FormInputs, dbFails \in BOOLEAN :
       CallUpdateService(id, f, dbFails)
  \/ \E id \in IdInputs, dbFails \in BOOLEAN : CallDeleteService(id, dbFails)
  \/ \E f \in FormInputs, dbFails \in BOOLEAN : CallCreateServiceRedirect(f, dbFails)
  \/ \E id \in IdInputs, f \in FormInputs, dbFails \in BOOLEAN :
       CallUpdateServiceRedirect(id, f, dbFails)
  \/ \E id \in 0..MaxCreates, dbFails \in BOOLEAN : CallGetService(id, dbFails)
  \/ \E s \in CrudSearchInputs, f \in FilterInputs, dbFails \in BOOLEAN :
       CallGetServicesCaught(s, f, dbFails)
  \/ \E dbFails \in BOOLEAN : CallGetServicesSecond(dbFails)
  \/ Returns
  \/ TimePasses

SpecCrud == CrudInit /\ [][CrudNext]_vars

\* ------------------------------------------------------------------------
\* The ServiceForm in use, in create mode on an empty database or in edit
\* mode on the one document of the database (SpecForm)
\* ------------------------------------------------------------------------

\* the form after a step of the given name that is no part of a submit: the
\* record of the last submit is blank again
AfterStep(f, name) ==
  [f EXCEPT !.step = name, !.submitted = BlankFormData,
            !.result = ReturnsUndefined,
            !.beforeResume = [open |-> FALSE, formData |-> BlankFormData]]

\* setOpen(value): the trigger, Cancel, and the dialog's onOpenChange
setOpen(value) ==
  /\ value # form.open
  /\ form' = AfterStep([form EXCEPT !.open = value], "setOpen")
  /\ UNCHANGED << services, now, nextId, call, sessionVars >>

\* handleInputChange(field, value): the inputs and switches of the open dialog
handleInputChange(field, value) ==
  /\ form.open
  /\ value # form.formData[field]
  /\ form' = AfterStep([form EXCEPT !.formData[field] = value], "handleInputChange")
  /\ UNCHANGED << services, now, nextId, call, sessionVars >>

\* handleSubmit up to its await: setIsLoading(true), the FormData is built
\* and updateService(service.id, form) or createService(form) is called.  The
\* request may fail to reach the server, and then the await throws.
handleSubmit(dbFails, rejected) ==
  LET fields == FormOf(form.formData)
      o == IF form.service # << >>
           THEN updateService(services, form.service[1].id, fields, dbFails, now)
           ELSE createService(services, fields, dbFails, nextId, now)
  IN  /\ form.open
      /\ ~form.isLoading
      /\ ConstraintsValid(form.formData)
      /\ IF rejected
         THEN /\ UNCHANGED << services, nextId, call >>
              /\ form' = [form EXCEPT !.isLoading = TRUE, !.awaiting = << Rejected >>,
                                      !.step = "handleSubmit",
                                      !.submitted = form.formData]
         ELSE /\ o.insertedId # 0 => nextId <= MaxCreates
              /\ services' = o.services
              /\ nextId' = IF o.insertedId # 0 THEN nextId + 1 ELSE nextId
              /\ call' = Call(IF form.service # << >> THEN "updateService"
                              ELSE "createService",
                              IF form.service # << >> THEN form.service[1].id ELSE 0,
                              fields, Undefined, [isActive |-> StrAll], dbFails, o,
                              services, now)
              /\ form' = [form EXCEPT !.isLoading = TRUE, !.awaiting = << o.returned >>,
                                      !.step = "handleSubmit",
                                      !.submitted = form.formData]
      /\ UNCHANGED << now, sessionVars >>

\* handleSubmit after its await: when the await gave a value, whatever the
\* value, setOpen(false) and the fields are reset; when it threw, the error is
\* logged; in both cases setIsLoading(false)
handleSubmitResumes ==
  /\ form.awaiting # << >>
  /\ LET answer == form.awaiting[1]
         threw == answer.kind = "rejected"
     IN  form' = [form EXCEPT
                    !.isLoading = FALSE,
                    !.awaiting = << >>,
                    !.open = IF threw THEN @ ELSE FALSE,
                    !.formData = IF threw THEN @ ELSE BlankFormData,
                    !.step = "handleSubmitResumes",
                    !.result = answer,
                    !.beforeResume = [open |-> form.open, formData |-> form.formData]]
  /\ call' = NoCall
  /\ UNCHANGED << services, now, nextId, sessionVars >>

\* what the user may enter in each field
FieldInputs ==
  [name        |-> { Empty, <<"X">> },
   description |-> { Empty, <<"Y">> },
   price       |-> { Empty, <<"5">>, <<"-", "5">> },
   isActive    |-> BOOLEAN,
   isFeatured  |-> BOOLEAN]

\* the document an edit form is mounted on
SeedCollection == createService({}, FormConsulting, FALSE, 1, 0).services

\* the form is mounted to add a document to the empty database, or for the
\* one document of the database
FormInit ==
  \/ /\ services = {}
     /\ Mount(<< >>)
     /\ Idle(<< >>)
  \/ /\ services = SeedCollection
     /\ Mount(<< >>)
     /\ \E r \in SeedCollection : Idle(<< r >>)

FormNext ==
  \/ \E v \in BOOLEAN : setOpen(v)
  \/ \E field \in DOMAIN FieldInputs :
       \E v \in FieldInputs[field] : handleInputChange(field, v)
  \/ \E dbFails \in BOOLEAN, rejected \in BOOLEAN : handleSubmit(dbFails, rejected)
  \/ handleSubmitResumes

SpecForm == FormInit /\ [][FormNext]_vars

\* ------------------------------------------------------------------------
\* Properties of a dashboard session (Spec)
\* ------------------------------------------------------------------------

\* C1: trailing-edge debounce.  In a burst of staged-value changes, each less
\* than the window after the one before, no search commit fires before the
\* window has passed since the last change, a commit that fires does so
\* exactly one window after the last change and carries the value staged
\* last, at most one commit fires, and one has fired once the window has
\* passed unless the staged value equals the committed search term.
DebounceTrailingEdge ==
  burst > 0 =>
    /\ burstCommits <= 1
    /\ event.kind = "searchCommit" =>
         /\ event.elapsed = SearchDebounceMs
         /\ event.value = event.staged
    /\ sinceChange > SearchDebounceMs =>
         \/ burstCommits = 1
         \/ localSearchTerm = SearchTermProp(url)

\* three changes, each within the window of the one before, then the commit
DebounceTrailingEdgeWitness ==
  /\ burst = 3
  /\ event.kind = "searchCommit"
  /\ event.elapsed = SearchDebounceMs
  /\ burstCommits = 1

\* C2: when the committed search term changes from outside to c while a
\* commit of a staged value other than c is pending, the staged value becomes
\* c, no live timer is left that would commit, and no search commit fires
\* until something is typed again.
ResyncCancelsPendingCommit ==
  /\ (event.kind = "external" /\ event.resync) =>
       /\ localSearchTerm = SearchTermProp(url)
       /\ \A t \in timers : t.local = t.term /\ t.local = localSearchTerm
  /\ resynced => event.kind # "searchCommit"

\* after such a resync the rescheduled timer ran out and committed nothing
ResyncCancelsPendingCommitWitness ==
  /\ resynced
  /\ event.kind = "timerIdle"
  /\ timers = {}

\* C3: a search commit is issued only when, at the moment the timer fires,
\* the staged value differs from the committed search term.
CommitOnlyIfChanged ==
  event.kind = "searchCommit" => event.staged # event.committed

\* a commit replacing a committed search term by another staged value
CommitOnlyIfChangedWitness ==
  /\ event.kind = "searchCommit"
  /\ event.committed # Empty
  /\ event.staged # Empty
  /\ event.staged # event.committed

\* C4: a search commit of a non-empty staged value sets the search parameter
\* of the URL it navigates to to exactly that value.
SearchCommitSetsStagedValue ==
  (event.kind = "searchCommit" /\ event.value # Empty) =>
     ParamsGet(event.href, "search") = event.value

\* C5: committing an empty staged value removes the search parameter,
\* selecting the status "all" removes the status parameter, and a page
\* rendered for a URL without the parameter queries without that constraint.
EmptyAndAllRemoveParameter ==
  /\ (event.kind = "searchCommit" /\ event.value = Empty) =>
       ~ParamsHas(event.href, "search")
  /\ (event.kind = "statusCommit" /\ event.value = StrAll) =>
       ~ParamsHas(event.href, "status")
  /\ ~ParamsHas(url, "search") => ~pageQuery.where.hasOR
  /\ ~ParamsHas(url, "status") => ~pageQuery.where.hasIsActive

\* the search box was cleared while a search term was committed
EmptyAndAllRemoveParameterWitness ==
  /\ event.kind = "searchCommit"
  /\ event.value = Empty
  /\ ParamsHas(url, "search")
  /\ ~ParamsHas(event.href, "search")

\* C6: two commits are never in flight at the same time.
AtMostOneCommitInFlight == Len(inflight) <= 1

\* C7: at most one deferred commit is pending.
AtMostOneLiveTimer == Cardinality(timers) <= 1

\* a second change within the window replaced the timer of the first
AtMostOneLiveTimerWitness ==
  /\ event.kind = "type"
  /\ burst >= 2
  /\ Cardinality(timers) = 1

\* ------------------------------------------------------------------------
\* Properties of getServices (SpecGateway)
\* ------------------------------------------------------------------------

Range(seq) == { seq[i] : i \in 1..Len(seq) }

\* the call whose result readResult holds
ReadStatus == readArgs.filterIsActive.isActive

\* C8: for every status filter f and search term s, getServices(s, f)
\* returns exactly the records of getServices(s, "all") for which f is "all"
\* or isActive equals (f = "true").
StatusFilterSelects ==
  \A base \in getServices(services, readArgs.searchTerm, [isActive |-> StrAll]) :
     Range(readResult) =
       { r \in Range(base) :
           ReadStatus = StrAll \/ r.isActive = (ReadStatus = StrTrue) }

\* a call with a text and a status that keeps some records and drops others
StatusFilterSelectsWitness ==
  /\ event.kind = "getServices"
  /\ ReadStatus = StrFalse
  /\ Truthy(readArgs.searchTerm)
  /\ Trim(readArgs.searchTerm) # Empty
  /\ readResult # << >>
  /\ \E base \in getServices(services, readArgs.searchTerm, [isActive |-> StrAll]) :
        Len(base) > Len(readResult)

\* the search term asks for no text: absent, empty or blanks only
NoText(s) == s = Undefined \/ \A i \in 1..Len(s) : s[i] = " "

\* s occurs in text somewhere, letters compared without case
Occurs(text, s) ==
  \E start \in 1..(Len(text) - Len(s) + 1) :
     \A j \in 1..Len(s) : Lower(text[start + j - 1]) = Lower(s[j])

SortedByCreatedAtThenId ==
  event.kind = "getServices" =>
  \A i \in 1..(Len(readResult) - 1) :
     \/ readResult[i].createdAt > readResult[i + 1].createdAt
     \/ /\ readResult[i].createdAt = readResult[i + 1].createdAt
        /\ readResult[i].id > readResult[i + 1].id

\* the parameters a commit just issued had to build on: the target of the
\* navigation that was pending before it, or else the rendered URL
BasisOfCommit ==
  IF Len(inflight) >= 2 THEN inflight[Len(inflight) - 1] ELSE url

\* C23: a search commit keeps the status parameter of the most recent status
\* selection, also when that selection is still a pending navigation, and a
\* status commit keeps the committed search parameter: no commit is built
\* from parameters that an earlier, still pending commit is replacing.
CommitsKeepOtherFilter ==
  /\ event.kind = "searchCommit" =>
       ParamsGet(event.href, "status") = ParamsGet(BasisOfCommit, "status")
  /\ event.kind = "statusCommit" =>
       ParamsGet(event.href, "search") = ParamsGet(BasisOfCommit, "search")

\* ------------------------------------------------------------------------
\* Properties of the server actions that read and write (SpecCrud)
\* ------------------------------------------------------------------------

\* the call returned without an error object
Succeeded == call.returned.kind # "error" /\ call.returned.kind # "rejected"

\* the call is one of createService or updateService
IsSave == call.action = "createService" \/ call.action = "updateService"

\* the document of the given id, as a sequence of no or one Service
DocumentOf(id) ==
  IF \E r \in services : r.id = id
  THEN << CHOOSE r \in services : r.id = id >> ELSE << >>

\* C11: when the persistence layer fails during a call of getServices, the
\* call returns the empty sequence: no error object and no exception, for
\* every search term and filter, in either definition of getServices.
ReadFailureGivesEmptyList ==
  (call.action \in { "getServices", "getServicesSecond" } /\ call.dbFails) =>
    call.returned = ReturnsList(<< >>)

\* a text that is empty or missing
Blank(text) == text = Empty \/ text = Null

\* a text no character of which is a digit: it denotes no number
NoNumber(text) == text = Null \/ \A i \in 1..Len(text) : ~IsDigit(text[i])

\* C12: createService and updateService called with an empty or missing
\* name, an empty or missing description, or a price text that denotes no
\* number return the validation error, make no persistence call, leave the
\* collection unchanged and revalidate nothing.
InvalidFieldsRejected ==
  (/\ IsSave
   /\ \/ Blank(call.form.name)
      \/ Blank(call.form.description)
      \/ NoNumber(call.form.price)) =>
    /\ call.returned =
         ReturnsError("All fields are required and price must be a valid number")
    /\ call.dbCalls = 0
    /\ ~call.changed
    /\ call.tags = {}
    /\ call.paths = {}

\* an update of a stored document with an empty description and a working
\* database is refused
InvalidFieldsRejectedWitness ==
  /\ call.action = "updateService"
  /\ call.prior # << >>
  /\ call.form.description = Empty
  /\ ~Blank(call.form.name)
  /\ ~NoNumber(call.form.price)
  /\ call.returned.kind = "error"
  /\ DocumentOf(call.id) = call.prior

\* a text that denotes a number below zero
Negative(text) == ~NoNumber(text) /\ Head(TrimStart(text)) = "-"

\* C13: createService and updateService refuse a price below zero with the
\* validation error and without a write, and every stored Service has a
\* price that is a number and is not below zero.
StoredPriceNonNegative ==
  /\ (IsSave /\ Negative(call.form.price)) =>
       (call.returned.kind = "error" /\ call.dbCalls = 0 /\ ~call.changed)
  /\ \A r \in services : ~r.price.nan /\ r.price.hundredths >= 0

\* C14: a createService whose form omits isActive, or carries a value other
\* than "true" and "false" for it, stores isActive = true; one whose form
\* omits isFeatured stores isFeatured = false.
FlagDefaultsAtCreation ==
  (call.action = "createService" /\ call.insertedId # 0) =>
    \A r \in services :
      r.id = call.insertedId =>
        /\ call.form.isActive \notin { StrTrue, StrFalse } => r.isActive
        /\ call.form.isFeatured = Null => ~r.isFeatured

\* the fields a form stands for once the server action has read them: the
\* texts as they are, the flags true exactly for the text "true"
FieldsAsRead(r, fields) ==
  /\ r.name = fields.name
  /\ r.description = fields.description
  /\ ~r.price.nan
  /\ fields.price = <<"9", "9", ".", "5", "0">> => r.price.hundredths = 9950
  /\ fields.price = <<"5">> => r.price.hundredths = 500
  /\ fields.price = <<"-", "5">> => r.price.hundredths = 0 - 500
  /\ r.isActive = (fields.isActive = StrTrue)
  /\ r.isFeatured = (fields.isFeatured = StrTrue)

UpdateStampsStrictlyLater ==
  (call.action = "updateService" /\ Succeeded /\ call.prior # << >>) =>
    \A r \in services :
      r.id = call.id =>
        /\ FieldsAsRead(r, call.form)
        /\ r.updatedAt > call.prior[1].updatedAt

\* C16, amended: a successful updateService of a stored id replaces the five
\* fields, keeps id and createdAt, and sets updatedAt to the time of the
\* write: never less than it was, and strictly greater when the clock has
\* advanced since the record was last written; getService answers that
\* record.
UpdateReplacesFieldsAndStamps ==
  (call.action = "updateService" /\ Succeeded) =>
    /\ call.prior # << >>
    /\ LET read == getService(services, call.id, FALSE).returned
       IN  /\ read.kind = "record"
           /\ read.value[1].id = call.id
           /\ FieldsAsRead(read.value[1], call.form)
           /\ read.value[1].createdAt = call.prior[1].createdAt
           /\ read.value[1].updatedAt = call.clock
           /\ read.value[1].updatedAt >= call.prior[1].updatedAt
           /\ call.clock > call.prior[1].updatedAt =>
                read.value[1].updatedAt > call.prior[1].updatedAt
    /\ Cardinality(services) = call.countBefore

\* an update, after the clock advanced, that changed every one of the five
\* fields
UpdateReplacesFieldsAndStampsWitness ==
  /\ call.action = "updateService"
  /\ Succeeded
  /\ call.prior # << >>
  /\ call.clock > call.prior[1].updatedAt
  /\ \E r \in services :
       /\ r.id = call.id
       /\ r.name # call.prior[1].name
       /\ r.description # call.prior[1].description
       /\ r.price # call.prior[1].price
       /\ r.isActive # call.prior[1].isActive
       /\ r.isFeatured # call.prior[1].isFeatured

\* C17: updateService and deleteService of an id no record has return a
\* failure and leave the collection unchanged; so does a second deleteService
\* of an id after the first succeeded.
NotFoundIsFailure ==
  (/\ call.action \in { "updateService", "deleteService" }
   /\ call.prior = << >>) =>
    /\ call.returned.kind = "error"
    /\ ~call.changed
    /\ DocumentOf(call.id) = << >>

\* a deleteService of an id the database had assigned and that was deleted
\* before, with the database working
NotFoundIsFailureWitness ==
  /\ call.action = "deleteService"
  /\ call.prior = << >>
  /\ call.id < nextId
  /\ ~call.dbFails
  /\ call.countBefore > 0
  /\ call.returned = ReturnsError("Failed to delete service")

\* C18: every successful createService, updateService and deleteService
\* revalidates the tag of the collection, deleteService the path of the
\* listing as well, and no call changes the collection without revalidating
\* the tag.
MutationsInvalidate ==
  /\ (call.action \in { "createService", "updateService", "deleteService" }
        /\ Succeeded) => "services" \in call.tags
  /\ (call.action = "deleteService" /\ Succeeded) =>
       "/dashboard/services" \in call.paths
  /\ call.changed => "services" \in call.tags

\* a deleteService that removed a document
MutationsInvalidateWitness ==
  /\ call.action = "deleteService"
  /\ Succeeded
  /\ call.changed
  /\ call.prior # << >>
  /\ call.tags = { "services" }
  /\ call.paths = { "/dashboard/services" }

StampsOrderedAndIdsUnique ==
  /\ \A r \in services : r.createdAt <= r.updatedAt
  /\ \A r1 \in services : \A r2 \in services : r1.id = r2.id => r1 = r2
  /\ \A r \in services : r.id < nextId

\* two documents are stored and one of them was updated after the clock
\* advanced
StampsOrderedAndIdsUniqueWitness ==
  /\ Cardinality(services) = 2
  /\ call.action = "updateService"
  /\ Succeeded
  /\ \E r \in services : r.id = call.id /\ r.createdAt < r.updatedAt

\* the call is a createService or an updateService of either block
IsSaveOfEitherBlock ==
  call.action \in { "createService", "updateService",
                    "createServiceRedirect", "updateServiceRedirect" }

\* the call made its persistence write and the write did not fail
WriteSucceeded ==
  /\ call.dbCalls = 1
  /\ ~call.dbFails
  /\ call.action \in { "updateService", "updateServiceRedirect", "deleteService" }
       => call.prior # << >>

\* C22: a createService or updateService whose persistence write succeeds
\* redirects to /dashboard/services and returns no error object; an error
\* object is returned only when the validation or the write fails.
SuccessfulSaveRedirects ==
  /\ (IsSaveOfEitherBlock /\ WriteSucceeded) =>
       call.returned = redirect("/dashboard/services")
  /\ (IsSaveOfEitherBlock /\ call.returned.kind = "error") =>
       (call.dbCalls = 0 \/ ~WriteSucceeded)

\* the call is a createService, updateService or deleteService
IsMutation ==
  \/ IsSaveOfEitherBlock
  \/ call.action = "deleteService"

\* C24: when the persistence call of createService, updateService or
\* deleteService fails, the collection is as it was before the call and
\* neither the tag nor the path is revalidated; a tag or path is revalidated
\* only after a write that succeeded.
FailedMutationChangesNothing ==
  /\ (IsMutation /\ call.dbCalls = 1 /\ ~WriteSucceeded) =>
       /\ ~call.changed
       /\ DocumentOf(call.id) = call.prior
       /\ Cardinality(services) = call.countBefore
       /\ call.tags = {}
       /\ call.paths = {}
  /\ (IsMutation /\ (call.tags # {} \/ call.paths # {})) => WriteSucceeded

\* an updateService of a stored document, with accepted fields, on a
\* database that fails
FailedMutationChangesNothingWitness ==
  /\ call.action = "updateService"
  /\ call.dbFails
  /\ call.prior # << >>
  /\ call.returned = ReturnsError("Failed to update service")
  /\ call.form.name # call.prior[1].name

\* C25: updateService(id, ...) and deleteService(id) leave every record of
\* another id as it was, updateService keeps the id and createdAt of its
\* target, createService leaves every existing record as it was, and
\* getServices and getService neither change the collection nor revalidate.
GatewayFrame ==
  [][ /\ call'.action \in { "updateService", "deleteService" } =>
           { r \in services' : r.id # call'.id } =
             { r \in services : r.id # call'.id }
      /\ call'.action = "updateService" =>
           \A r \in services' :
             r.id = call'.id =>
               \E p \in services : p.id = r.id /\ p.createdAt = r.createdAt
      /\ call'.action = "createService" => services \subseteq services'
      /\ call'.action \in { "getServices", "getServicesSecond", "getService" } =>
           /\ services' = services
           /\ call'.tags = {}
           /\ call'.paths = {}
    ]_vars

\* an updateService changed its target while a second document is stored
GatewayFrameWitness ==
  /\ call.action = "updateService"
  /\ Succeeded
  /\ call.changed
  /\ Cardinality(services) = 2
  /\ \E r \in services : r.id # call.id

\* ------------------------------------------------------------------------
\* Properties of the ServiceForm (SpecForm)
\* ------------------------------------------------------------------------

\* C19: when the awaited createService or updateService answers a failure,
\* the dialog stays as open as it was and the fields stay as they were; the
\* dialog is closed by the submit only after a successful write.
FailedWriteKeepsFormOpen ==
  form.step = "handleSubmitResumes" =>
    /\ form.result.kind = "error" =>
         /\ form.open = form.beforeResume.open
         /\ form.formData = form.beforeResume.formData
    /\ (form.beforeResume.open /\ ~form.open) => form.result = ReturnsUndefined

====
